---- MODULE Spec2Model ----
(***************************************************************************)
(* Model of src/app.py: one invocation of transcribe_fn.  It opens the     *)
(* streaming transport, runs write_chunks (the Pacer) and                  *)
(* MyEventHandler.handle_events (the Aggregator) under asyncio.gather,     *)
(* joins them, then calls translate and polly.                             *)
(*                                                                         *)
(* Python strings are TLA+ strings (\o is +, Len is len).  Every action is *)
(* the code between two await points of one coroutine: asyncio runs that   *)
(* code without interleaving.                                              *)
(***************************************************************************)
EXTENDS Integers, Sequences, FiniteSets, TLC

VARIABLES
    language,        \* transcribe_fn argument: a key of LANGUAGE_LIST
    fileSize,        \* size in bytes of the audio file at filepath
    inbound,         \* the events the remote endpoint yields on stream.output_stream
    pc,              \* position of transcribe_fn / basic_transcribe
    error,           \* what was raised to the caller of transcribe_fn ("" if nothing)
    pacer,           \* position of the write_chunks task
    fileOpen,        \* the AIOFile handle is held
    fileOpens,       \* number of times the audio file was opened
    filePos,         \* bytes of the file already read
    outbound,        \* what was sent on stream.input_stream, in order
    now,             \* clock ticks since apply_realtime_delay took start_time
    elapsed_audio_time, \* apply_realtime_delay's local, in clock ticks
    agg,             \* position of the handle_events task
    evIdx,           \* number of events handle_events has taken from the stream
    text,            \* handle_events' local text
    aggResult,       \* value returned by handle_events
    faulted,         \* the inbound stream raised while being iterated
    gatherExc,       \* exception set on the gather future by the first task to fail ("" if none)
    response,        \* basic_transcribe's returned list
    transcribe_text, \* transcribe_fn locals
    translate_text,
    polly_audio,
    translateCalls,  \* arguments of every call of translate, in order
    pollyCalls       \* arguments of every call of polly, in order

vars == <<language, fileSize, inbound, pc, error, pacer, fileOpen, fileOpens,
          filePos, outbound, now, elapsed_audio_time, agg, evIdx, text, aggResult, faulted, gatherExc, response,
          transcribe_text, translate_text, polly_audio, translateCalls,
          pollyCalls>>

inputVars == <<language, fileSize, inbound>>
pacerVars == <<pacer, fileOpen, fileOpens, filePos, outbound, now, elapsed_audio_time>>
aggVars   == <<agg, evIdx, text, aggResult, faulted>>
callerVars == <<pc, error, response, transcribe_text, translate_text,
                polly_audio, translateCalls, pollyCalls>>

-----------------------------------------------------------------------------
(* Bounds of the model *)

MaxStreamSize == 8   \* events + results + alternatives of a stream given to
                     \* handle_events alone
SessMaxEvents == 2   \* events in the stream of a whole session
MaxChunks == 2       \* full chunks in the audio file

-----------------------------------------------------------------------------
(* Program constants *)

SAMPLE_RATE == 41000
BYTES_PER_SAMPLE == 2
CHANNEL_NUMS == 1

CHUNK_SIZE == 1024 * 8

\* The UI labels of LANGUAGE_LIST are Japanese words in the source; they are
\* spelled in ASCII here.
LANGUAGE_LIST == [Japanese |-> "ja-JP", English |-> "en-US"]

TRANSLATE_LIST ==
    [x \in {"ja-JP", "en-US"} |->
        IF x = "ja-JP" THEN [src |-> "ja", target |-> "en"]
                       ELSE [src |-> "en", target |-> "ja"]]

POLLY_PARAM ==
    [x \in {"en", "ja"} |->
        IF x = "en"
        THEN [voice_id |-> "Ruth", language_code |-> "en-US", engine |-> "generative"]
        ELSE [voice_id |-> "Takumi", language_code |-> "ja-JP", engine |-> "neural"]]

-----------------------------------------------------------------------------
(* Python values *)

None == [tag |-> "None"]
Str(s) == [tag |-> "str", val |-> s]

\* bool(v) for None and str
Truthy(v) == IF v.tag = "None" THEN FALSE ELSE v.val # ""

\* list(filter(None, xs))
FilterNone(xs) == SelectSeq(xs, Truthy)

\* "".join(xs) for a list of str
RECURSIVE Join(_)
Join(xs) == IF xs = <<>> THEN "" ELSE Head(xs).val \o Join(Tail(xs))

SeqUpTo(S, n) == UNION {[1..k -> S] : k \in 0..n}

-----------------------------------------------------------------------------
(* Recognition events.  An event is modelled by event.transcript.results,   *)
(* a result by its is_partial flag and its alternatives, an alternative by  *)
(* its transcript.                                                          *)

Alt(s) == [transcript |-> s]
Result(p, alts) == [is_partial |-> p, alternatives |-> alts]


\* A stream written as the list of its parts in reading order: "E" opens an
\* event, "Rp" and "Rf" add a partial and a finalized result to the open
\* event, "Aa" and "Ab" add an alternative of transcript "a" and "b" to the
\* last result.  The size of a stream is the length of that list.
Tokens == {"E", "Rp", "Rf", "Aa", "Ab"}

\* The lists that describe a stream: a result needs an open event, an
\* alternative needs a result in the open event
ValidTokens(t) ==
    /\ Len(t) > 0 => t[1] = "E"
    /\ \A i \in 2..Len(t) : t[i] \in {"Aa", "Ab"} => t[i - 1] # "E"

AddToken(stream, tok) ==
    LET e == Len(stream) IN
    IF tok = "E" THEN Append(stream, <<>>)
    ELSE IF tok \in {"Rp", "Rf"}
         THEN [stream EXCEPT ![e] = Append(@, Result(tok = "Rp", <<>>))]
         ELSE [stream EXCEPT ![e][Len(stream[e])].alternatives =
                   Append(@, Alt(IF tok = "Aa" THEN "a" ELSE "b"))]

RECURSIVE StreamOf(_, _)
StreamOf(stream, t) ==
    IF t = <<>> THEN stream ELSE StreamOf(AddToken(stream, Head(t)), Tail(t))

\* The end-to-end scenario: partial "Hel", partial "Hello", finalized "Hello world"
HelloScenario ==
    << <<Result(TRUE, <<Alt("Hel")>>)>>,
       <<Result(TRUE, <<Alt("Hello")>>)>>,
       <<Result(FALSE, <<Alt("Hello world")>>)>> >>


\* Streams of a whole session: events of one result with one alternative, a
\* partial one and two finalized ones (SpecAgg covers the other shapes)
SessionResults ==
    {Result(TRUE, <<Alt("a")>>), Result(FALSE, <<Alt("a")>>),
     Result(FALSE, <<Alt("b")>>)}
SessionEvents == {<<r>> : r \in SessionResults}
SessionInbounds == SeqUpTo(SessionEvents, SessMaxEvents)

FileSizes ==
    {n * CHUNK_SIZE : n \in 0..MaxChunks}
        \cup {n * CHUNK_SIZE + 1 : n \in 0..(MaxChunks - 1)}

Chunk(offset, size) == [kind |-> "chunk", offset |-> offset, size |-> size]
EndOfStream == [kind |-> "end_stream"]

\* What translate can return for a non-empty text, and the file polly writes
TranslatedTexts == {"", "t"}
TmpFile == "tmp_file"

-----------------------------------------------------------------------------
(* asyncio.gather without return_exceptions: the first exception raised by  *)
(* one of the awaitables is the one set on the gather future; the other     *)
(* awaitable is not cancelled and keeps running.                            *)

FirstException(pending, exc) == IF pending = "" THEN exc ELSE pending

-----------------------------------------------------------------------------
(* MyEventHandler.handle_events *)

\* text = text + alt.transcript
AppendAltPrepend(t, alt) == alt.transcript \o t
AppendAlt(t, alt) == t \o alt.transcript

\* for alt in result.alternatives: ...
RECURSIVE AppendAlternatives(_, _)
AppendAlternatives(t, alts) ==
    IF alts = <<>> THEN t
    ELSE AppendAlternatives(AppendAlt(t, Head(alts)), Tail(alts))

\* if not result.is_partial: ...
HandleResultAnyPartial(t, result) == AppendAlternatives(t, result.alternatives)
HandleResult(t, result) ==
    IF ~result.is_partial THEN AppendAlternatives(t, result.alternatives) ELSE t

\* for result in results: ...
RECURSIVE HandleResults(_, _)
HandleResults(t, results) ==
    IF results = <<>> THEN t
    ELSE HandleResults(HandleResult(t, Head(results)), Tail(results))

\* One iteration of "async for event in self._transcript_result_stream": the
\* stream yields its next event and the loop body runs on it.
AggNextEvent ==
    /\ agg = "iterating"
    /\ ~faulted
    /\ evIdx < Len(inbound)
    /\ evIdx' = evIdx + 1
    /\ text' = HandleResults(text, inbound[evIdx + 1])
    /\ UNCHANGED <<agg, aggResult, faulted, gatherExc>>
    /\ UNCHANGED <<inputVars, pacerVars, callerVars>>

\* The remote side closes the inbound sequence, which it does once every event
\* was delivered and end-of-stream was signalled: the loop ends, return text.
AggClose ==
    /\ agg = "iterating"
    /\ ~faulted
    /\ evIdx = Len(inbound)
    /\ outbound # <<>> /\ outbound[Len(outbound)] = EndOfStream
    /\ agg' = "done"
    /\ aggResult' = Str(text)
    /\ UNCHANGED <<evIdx, text, faulted, gatherExc>>
    /\ UNCHANGED <<inputVars, pacerVars, callerVars>>

\* The inbound sequence ends abnormally: the async iterator raises inside
\* handle_events, which has no handler for it.
AggFault ==
    /\ agg = "iterating"
    /\ faulted' = TRUE
    /\ agg' = "failed"
    /\ gatherExc' = FirstException(gatherExc, "StreamInterruptedError")
    /\ UNCHANGED <<evIdx, text, aggResult>>
    /\ UNCHANGED <<inputVars, pacerVars, callerVars>>

-----------------------------------------------------------------------------
(* write_chunks: it opens the file, lets apply_realtime_delay send every    *)
(* chunk the Reader yields and sleep after each, leaves the "async with"    *)
(* and signals end-of-stream.                                               *)

\* The clock ticks once per byte of audio played: a second has
\* BYTES_PER_SAMPLE * SAMPLE_RATE * CHANNEL_NUMS ticks
TicksPerSecond == BYTES_PER_SAMPLE * SAMPLE_RATE * CHANNEL_NUMS

\* len(chunk) / (bytes_per_sample * sample_rate * channel_nums), in ticks
AudioTime(len) ==
    (len * TicksPerSecond) \div (BYTES_PER_SAMPLE * SAMPLE_RATE * CHANNEL_NUMS)

\* The instants the clock is observed at: every chunk boundary and the tick
\* after it, up to one chunk past the longest file
TimePoints ==
    {k * AudioTime(CHUNK_SIZE) + r : k \in 0..(MaxChunks + 1), r \in {0, 1}}

\* Time passes while apply_realtime_delay runs: during a read, a send or a
\* sleep the clock moves to any later instant
Tick ==
    /\ pacer \in {"reading", "sleeping"}
    /\ \E t \in TimePoints : t > now /\ now' = t
    /\ UNCHANGED <<pacer, fileOpen, fileOpens, filePos, outbound, elapsed_audio_time>>
    /\ UNCHANGED <<inputVars, aggVars, gatherExc, callerVars>>

\* write_chunks has no return statement
WriteChunksReturnStatus == Str("sent")
WriteChunksReturn == None

Min(a, b) == IF a < b THEN a ELSE b

\* async with aiofile.AIOFile(filepath, "rb") as afp
PacerOpenFile ==
    /\ pacer = "created"
    /\ fileOpens' = fileOpens + 1
    /\ fileOpen' = TRUE
    /\ pacer' = "reading"
    /\ UNCHANGED <<filePos, outbound, now, elapsed_audio_time>>
    /\ UNCHANGED <<inputVars, aggVars, gatherExc, callerVars>>

\* ... the file is missing or unreadable: the open raises
PacerOpenFail ==
    /\ pacer = "created"
    /\ fileOpens' = fileOpens + 1
    /\ pacer' = "failed"
    /\ gatherExc' = FirstException(gatherExc, "IOError")
    /\ UNCHANGED <<fileOpen, filePos, outbound, now, elapsed_audio_time>>
    /\ UNCHANGED <<inputVars, aggVars, callerVars>>

\* The Reader yields the next chunk of at most CHUNK_SIZE bytes and
\* send_audio_event writes it to the input stream
PacerSendChunk ==
    /\ pacer = "reading"
    /\ filePos < fileSize
    /\ LET size == Min(CHUNK_SIZE, fileSize - filePos) IN
         /\ outbound' = Append(outbound, Chunk(filePos, size))
         /\ filePos' = filePos + size
         /\ elapsed_audio_time' = elapsed_audio_time + AudioTime(size)
    /\ pacer' = "sleeping"
    /\ UNCHANGED <<fileOpen, fileOpens, now>>
    /\ UNCHANGED <<inputVars, aggVars, gatherExc, callerVars>>

\* wait_time = start_time + elapsed_audio_time - time.time(), with start_time
\* the origin of the clock
WaitTime == elapsed_audio_time - now

\* await asyncio.sleep(wait_time): it returns once wait_time has passed, at
\* once when wait_time is not positive
PacerSleepNoWait ==
    /\ pacer = "sleeping"
    /\ pacer' = "reading"
    /\ UNCHANGED <<fileOpen, fileOpens, filePos, outbound, now, elapsed_audio_time>>
    /\ UNCHANGED <<inputVars, aggVars, gatherExc, callerVars>>

PacerSleep ==
    /\ pacer = "sleeping"
    /\ WaitTime <= 0
    /\ pacer' = "reading"
    /\ UNCHANGED <<fileOpen, fileOpens, filePos, outbound, now, elapsed_audio_time>>
    /\ UNCHANGED <<inputVars, aggVars, gatherExc, callerVars>>

\* A read of the file raises: the exception leaves the "async with", which
\* closes the file
PacerReadFail ==
    /\ pacer = "reading"
    /\ fileOpen' = FALSE
    /\ pacer' = "failed"
    /\ gatherExc' = FirstException(gatherExc, "IOError")
    /\ UNCHANGED <<fileOpens, filePos, outbound, now, elapsed_audio_time>>
    /\ UNCHANGED <<inputVars, aggVars, callerVars>>

\* The chunk was read but send_audio_event raises (connection dropped)
PacerSendFail ==
    /\ pacer = "reading"
    /\ filePos < fileSize
    /\ filePos' = filePos + Min(CHUNK_SIZE, fileSize - filePos)
    /\ fileOpen' = FALSE
    /\ pacer' = "failed"
    /\ gatherExc' = FirstException(gatherExc, "TransportError")
    /\ UNCHANGED <<fileOpens, outbound, now, elapsed_audio_time>>
    /\ UNCHANGED <<inputVars, aggVars, callerVars>>

\* The Reader is exhausted: apply_realtime_delay returns and the "async with"
\* closes the file
PacerEofEarly ==
    /\ pacer = "reading"
    /\ fileOpen' = FALSE
    /\ pacer' = "end_stream"
    /\ UNCHANGED <<fileOpens, filePos, outbound, now, elapsed_audio_time>>
    /\ UNCHANGED <<inputVars, aggVars, gatherExc, callerVars>>

PacerEof ==
    /\ pacer = "reading"
    /\ filePos = fileSize
    /\ fileOpen' = FALSE
    /\ pacer' = "end_stream"
    /\ UNCHANGED <<fileOpens, filePos, outbound, now, elapsed_audio_time>>
    /\ UNCHANGED <<inputVars, aggVars, gatherExc, callerVars>>

\* await stream.input_stream.end_stream()
PacerEndStreamOmitted ==
    /\ pacer = "end_stream"
    /\ pacer' = "done"
    /\ UNCHANGED <<fileOpen, fileOpens, filePos, outbound, now, elapsed_audio_time>>
    /\ UNCHANGED <<inputVars, aggVars, gatherExc, callerVars>>

PacerEndStream ==
    /\ pacer = "end_stream"
    /\ outbound' = Append(outbound, EndOfStream)
    /\ pacer' = "done"
    /\ UNCHANGED <<fileOpen, fileOpens, filePos, now, elapsed_audio_time>>
    /\ UNCHANGED <<inputVars, aggVars, gatherExc, callerVars>>

\* ... end_stream raises (connection dropped)
PacerEndStreamFail ==
    /\ pacer = "end_stream"
    /\ pacer' = "failed"
    /\ gatherExc' = FirstException(gatherExc, "TransportError")
    /\ UNCHANGED <<fileOpen, fileOpens, filePos, outbound, now, elapsed_audio_time>>
    /\ UNCHANGED <<inputVars, aggVars, callerVars>>

-----------------------------------------------------------------------------
(* basic_transcribe *)

taskVars == <<pacerVars, aggVars, gatherExc>>

\* stream = await client.start_stream_transcription(...) succeeds; gather
\* wraps write_chunks() and handler.handle_events() in two tasks
OpenTransport ==
    /\ pc = "start"
    /\ pc' = "gather"
    /\ pacer' = "created"
    /\ agg' = "iterating"
    /\ UNCHANGED <<fileOpen, fileOpens, filePos, outbound, now, elapsed_audio_time>>
    /\ UNCHANGED <<evIdx, text, aggResult, faulted, gatherExc>>
    /\ UNCHANGED <<error, response, transcribe_text, translate_text, polly_audio,
                   translateCalls, pollyCalls>>
    /\ UNCHANGED inputVars

\* start_stream_transcription raises: basic_transcribe and transcribe_fn
\* raise it to the caller
OpenTransportSpawnsTasks ==
    /\ pc = "start"
    /\ pc' = "raised"
    /\ \E e \in {"AuthenticationError", "ConnectionError"} : error' = e
    /\ pacer' = "created"
    /\ agg' = "iterating"
    /\ UNCHANGED <<fileOpen, fileOpens, filePos, outbound, now, elapsed_audio_time>>
    /\ UNCHANGED <<evIdx, text, aggResult, faulted, gatherExc>>
    /\ UNCHANGED <<response, transcribe_text, translate_text, polly_audio,
                   translateCalls, pollyCalls>>
    /\ UNCHANGED inputVars

OpenTransportFail ==
    /\ pc = "start"
    /\ pc' = "raised"
    /\ \E e \in {"AuthenticationError", "ConnectionError"} : error' = e
    /\ UNCHANGED <<response, transcribe_text, translate_text, polly_audio,
                   translateCalls, pollyCalls>>
    /\ UNCHANGED <<inputVars, taskVars>>

\* response = await asyncio.gather(write_chunks(), handler.handle_events())
GatherResults(pacerRet, aggRet) == <<pacerRet, aggRet>>

\* return list(filter(None, response))
BasicTranscribeReturnUnfiltered(resp) == resp
BasicTranscribeReturn(resp) == FilterNone(resp)

\* "".join(response) raises TypeError when an item is not a str
JoinRaises(xs) == \E i \in 1..Len(xs) : xs[i].tag # "str"

\* Both tasks returned: gather yields their results, basic_transcribe returns
\* and transcribe_fn joins the list
GatherReturnOnPacerDone ==
    /\ pc = "gather"
    /\ pacer = "done"
    /\ agg \in {"iterating", "done"}
    /\ response' = BasicTranscribeReturn(GatherResults(WriteChunksReturn, Str(text)))
    /\ IF JoinRaises(response')
       THEN pc' = "raised" /\ error' = "TypeError" /\ UNCHANGED transcribe_text
       ELSE pc' = "translate" /\ transcribe_text' = Join(response') /\ UNCHANGED error
    /\ UNCHANGED <<translate_text, polly_audio, translateCalls, pollyCalls>>
    /\ UNCHANGED <<inputVars, taskVars>>

GatherReturn ==
    /\ pc = "gather"
    /\ pacer = "done"
    /\ agg = "done"
    /\ response' = BasicTranscribeReturn(GatherResults(WriteChunksReturn, aggResult))
    /\ IF JoinRaises(response')
       THEN pc' = "raised" /\ error' = "TypeError" /\ UNCHANGED transcribe_text
       ELSE pc' = "translate" /\ transcribe_text' = Join(response') /\ UNCHANGED error
    /\ UNCHANGED <<translate_text, polly_audio, translateCalls, pollyCalls>>
    /\ UNCHANGED <<inputVars, taskVars>>

\* A task raised: the await of gather raises its exception at once, through
\* basic_transcribe and transcribe_fn, whatever the other task is doing
GatherRaiseSwallowed ==
    /\ pc = "gather"
    /\ gatherExc # ""
    /\ pc' = "translate"
    /\ response' = <<>>
    /\ transcribe_text' = ""
    /\ UNCHANGED <<error, translate_text, polly_audio, translateCalls, pollyCalls>>
    /\ UNCHANGED <<inputVars, taskVars>>

GatherRaise ==
    /\ pc = "gather"
    /\ gatherExc # ""
    /\ pc' = "raised"
    /\ error' = gatherExc
    /\ UNCHANGED <<response, transcribe_text, translate_text, polly_audio,
                   translateCalls, pollyCalls>>
    /\ UNCHANGED <<inputVars, taskVars>>

-----------------------------------------------------------------------------
(* transcribe_fn after basic_transcribe *)

TranslateArgs ==
    [text |-> transcribe_text,
     src_lang |-> TRANSLATE_LIST[LANGUAGE_LIST[language]]["src"],
     target_lang |-> TRANSLATE_LIST[LANGUAGE_LIST[language]]["target"]]

PollyArgsOfSource ==
    LET param == POLLY_PARAM[TRANSLATE_LIST[LANGUAGE_LIST[language]]["src"]] IN
    [text |-> translate_text, language_code |-> param.language_code,
     voice_id |-> param.voice_id, engine |-> param.engine]

PollyArgs ==
    LET param == POLLY_PARAM[TRANSLATE_LIST[LANGUAGE_LIST[language]]["target"]] IN
    [text |-> translate_text, language_code |-> param.language_code,
     voice_id |-> param.voice_id, engine |-> param.engine]

\* if len(transcribe_text) > 0
NeedsTranslateAlways == TRUE
NeedsTranslate == Len(transcribe_text) > 0

\* translate_text = "" and the branch is not taken
TranslateSkip ==
    /\ pc = "translate"
    /\ ~NeedsTranslate
    /\ translate_text' = ""
    /\ pc' = "polly"
    /\ UNCHANGED <<error, response, transcribe_text, polly_audio, translateCalls,
                   pollyCalls>>
    /\ UNCHANGED <<inputVars, taskVars>>

\* translate_text = translate(transcribe_text, src, target)
TranslateCall ==
    /\ pc = "translate"
    /\ NeedsTranslate
    /\ translateCalls' = Append(translateCalls, TranslateArgs)
    /\ \E out \in TranslatedTexts : translate_text' = out
    /\ pc' = "polly"
    /\ UNCHANGED <<error, response, transcribe_text, polly_audio, pollyCalls>>
    /\ UNCHANGED <<inputVars, taskVars>>

\* ... the translation request raises
TranslateRaise ==
    /\ pc = "translate"
    /\ NeedsTranslate
    /\ translateCalls' = Append(translateCalls, TranslateArgs)
    /\ pc' = "raised"
    /\ error' = "TranslateError"
    /\ UNCHANGED <<response, transcribe_text, translate_text, polly_audio, pollyCalls>>
    /\ UNCHANGED <<inputVars, taskVars>>

\* if len(translate_text) > 0
NeedsPollyOnTranscript == Len(transcribe_text) > 0
NeedsPolly == Len(translate_text) > 0

\* polly_audio = None and the branch is not taken; return
PollySkip ==
    /\ pc = "polly"
    /\ ~NeedsPolly
    /\ polly_audio' = None
    /\ pc' = "returned"
    /\ UNCHANGED <<error, response, transcribe_text, translate_text, translateCalls,
                   pollyCalls>>
    /\ UNCHANGED <<inputVars, taskVars>>

\* polly_audio = polly(translate_text, **param); return
PollyCall ==
    /\ pc = "polly"
    /\ NeedsPolly
    /\ pollyCalls' = Append(pollyCalls, PollyArgs)
    /\ polly_audio' = Str(TmpFile)
    /\ pc' = "returned"
    /\ UNCHANGED <<error, response, transcribe_text, translate_text, translateCalls>>
    /\ UNCHANGED <<inputVars, taskVars>>

\* ... the synthesis request raises
PollyRaise ==
    /\ pc = "polly"
    /\ NeedsPolly
    /\ pollyCalls' = Append(pollyCalls, PollyArgs)
    /\ pc' = "raised"
    /\ error' = "PollyError"
    /\ UNCHANGED <<response, transcribe_text, translate_text, polly_audio,
                   translateCalls>>
    /\ UNCHANGED <<inputVars, taskVars>>

-----------------------------------------------------------------------------
(* Specifications *)

InitLocals ==
    /\ error = ""
    /\ fileOpen = FALSE
    /\ fileOpens = 0
    /\ filePos = 0
    /\ now = 0
    /\ elapsed_audio_time = 0
    /\ evIdx = 0
    /\ text = ""
    /\ aggResult = None
    /\ faulted = FALSE
    /\ gatherExc = ""
    /\ response = <<>>
    /\ transcribe_text = ""
    /\ translate_text = ""
    /\ polly_audio = None
    /\ translateCalls = <<>>
    /\ pollyCalls = <<>>

\* transcribe_fn is called with a language and an audio file
Init ==
    /\ language \in DOMAIN LANGUAGE_LIST
    /\ fileSize \in FileSizes
    /\ inbound \in SessionInbounds
    /\ pc = "start"
    /\ pacer = "notstarted"
    /\ agg = "notstarted"
    /\ outbound = <<>>
    /\ InitLocals

Next ==
    \/ OpenTransport
    \/ OpenTransportFail
    \/ PacerOpenFile
    \/ PacerOpenFail
    \/ PacerSendChunk
    \/ PacerSleep
    \/ Tick
    \/ PacerReadFail
    \/ PacerSendFail
    \/ PacerEof
    \/ PacerEndStream
    \/ PacerEndStreamFail
    \/ AggNextEvent
    \/ AggClose
    \/ AggFault
    \/ GatherReturn
    \/ GatherRaise
    \/ TranslateSkip
    \/ TranslateCall
    \/ TranslateRaise
    \/ PollySkip
    \/ PollyCall
    \/ PollyRaise

Spec == Init /\ [][Next]_vars

\* handle_events run alone, on any stream of at most MaxStreamSize parts or on
\* the end-to-end scenario; the outbound side of the stream was already ended
InitAgg ==
    /\ language = "English"
    /\ fileSize = 0
    /\ \/ inbound = HelloScenario
       \/ \E n \in 0..MaxStreamSize : \E t \in [1..n -> Tokens] :
              ValidTokens(t) /\ inbound = StreamOf(<<>>, t)
    /\ pc = "gather"
    /\ pacer = "done"
    /\ agg = "iterating"
    /\ outbound = <<EndOfStream>>
    /\ InitLocals

NextAgg ==
    \/ AggNextEvent
    \/ AggClose
    \/ AggFault

SpecAgg == InitAgg /\ [][NextAgg]_vars

-----------------------------------------------------------------------------
(* What the inbound stream is expected to contribute, stated on the whole   *)
(* stream instead of loop by loop.                                          *)

RECURSIVE Flatten(_)
Flatten(seqs) == IF seqs = <<>> THEN <<>> ELSE Head(seqs) \o Flatten(Tail(seqs))

IsFinal(r) == ~r.is_partial

\* The events handle_events has taken so far
Consumed == SubSeq(inbound, 1, evIdx)

\* The transcripts of a list of alternatives, as one string
TranscriptsOf(alts) == Join([i \in 1..Len(alts) |-> Str(alts[i].transcript)])

\* The finalized results of a stream in the order they are observed: event by
\* event, and in list order within an event
FinalizedOf(stream) == SelectSeq(Flatten(stream), IsFinal)

\* Every finalized result's text, in observation order
ExpectedText(stream) ==
    LET f == FinalizedOf(stream) IN
    Join([i \in 1..Len(f) |-> Str(TranscriptsOf(f[i].alternatives))])

\* The text of every result of a stream, partial or not
AllText(stream) ==
    LET rs == Flatten(stream) IN
    Join([i \in 1..Len(rs) |-> Str(TranscriptsOf(rs[i].alternatives))])

\* The stream with its partial results removed
WithoutPartials(stream) ==
    [i \in 1..Len(stream) |-> SelectSeq(stream[i], IsFinal)]

OnlyPartials(stream) == \A i \in 1..Len(Flatten(stream)) : Flatten(stream)[i].is_partial

\* The first alternative's transcript, "" for a result without alternatives
FirstAltText(r) == IF r.alternatives = <<>> THEN "" ELSE r.alternatives[1].transcript

FirstAltsText(stream) ==
    LET f == FinalizedOf(stream) IN
    Join([i \in 1..Len(f) |-> Str(FirstAltText(f[i]))])

-----------------------------------------------------------------------------
(* Claims on handle_events, checked under SpecAgg *)

\* C1: the transcript handle_events returns is the text of the finalized
\* results in the order they were observed (event order, then list order
\* within an event), each once: nothing reordered, dropped or duplicated.
C1_TranscriptInObservedOrder ==
    agg = "done" => aggResult = Str(ExpectedText(inbound))

\* Two events, the first with two finalized results of different text
C1_Witness ==
    /\ agg = "done"
    /\ Len(inbound) = 2
    /\ Len(inbound[1]) = 2 /\ Len(inbound[2]) = 1
    /\ \A r \in {inbound[1][1], inbound[1][2], inbound[2][1]} :
           ~r.is_partial /\ Len(r.alternatives) = 1
    /\ aggResult = Str("abb")

\* C2: partial results never contribute text: in every state the running text
\* is the text of the consumed stream with its partial results removed; a
\* stream of partial results only leaves it empty; partial "Hel", partial
\* "Hello", finalized "Hello world" returns exactly "Hello world".
C2_PartialsNeverContribute ==
    /\ text = AllText(WithoutPartials(Consumed))
    /\ OnlyPartials(inbound) => text = ""
    /\ (inbound = HelloScenario /\ agg = "done") => aggResult = Str("Hello world")

C2_Witness ==
    /\ inbound = HelloScenario
    /\ agg = "done"
    /\ aggResult = Str("Hello world")

\* C3 (as claimed): only the first alternative of each finalized result is
\* appended, so the running text is the first alternatives' text.
C3_OnlyFirstAlternative ==
    text = FirstAltsText(Consumed)

-----------------------------------------------------------------------------
(* Claims on the session, checked under Spec *)

OpenErrors == {"AuthenticationError", "ConnectionError"}

\* basic_transcribe has returned or raised to transcribe_fn
Closed == pc \notin {"start", "gather"}

TasksStarted == pacer # "notstarted" /\ agg # "notstarted"

TaskReturned(t) == t \in {"done", "failed"}

\* C4: when both tasks succeed, the transcript transcribe_fn joins from
\* basic_transcribe's list is exactly the Aggregator's text; the Pacer's
\* return value is no item of the list; an empty text gives "" and no error.
C4_TranscriptIsAggregatorText ==
    (Closed /\ pacer = "done" /\ agg = "done") =>
        /\ transcribe_text = aggResult.val
        /\ \A i \in 1..Len(response) : response[i] = aggResult
        /\ error \in {"", "TranslateError", "PollyError"}
        /\ aggResult.val = "" => (transcribe_text = "" /\ error = "")

C4_Witness ==
    /\ pc = "returned"
    /\ pacer = "done" /\ agg = "done"
    /\ aggResult = Str("ab")
    /\ transcribe_text = "ab"

\* C5: when the inbound sequence closes having delivered zero events, the
\* session completes with the empty transcript and no error is raised.
C5_ZeroEventsEmptyTranscript ==
    (inbound = <<>> /\ agg = "done") =>
        /\ aggResult = Str("")
        /\ pc # "raised" /\ error = "" /\ gatherExc = ""
        /\ Closed => (response = <<>> /\ transcribe_text = "")
        /\ pc = "returned" => (translate_text = "" /\ polly_audio = None)

C5_Witness ==
    /\ inbound = <<>>
    /\ agg = "done"
    /\ evIdx = 0
    /\ pc = "returned"
    /\ transcribe_text = ""

\* C6 (as claimed): the call has completed only if both tasks have returned,
\* in success or in failure.
C6_ClosedOnlyAfterBothTasks ==
    (Closed /\ TasksStarted) => (TaskReturned(pacer) /\ TaskReturned(agg))

\* C7 (as claimed): when the Pacer fails, its error reaches the caller, and
\* the call completes only once the Aggregator has finished with the inbound
\* sequence.
C7_PacerFailureWaitsForAggregator ==
    (pacer = "failed" /\ Closed) =>
        (pc = "raised" /\ error = gatherExc /\ agg # "iterating")

\* C8: when opening the transport fails, the failure reaches the caller and
\* no task is ever started: the file is never opened, no chunk is written, no
\* event is read, translate and polly are not invoked.
C8_OpenFailureStartsNothing ==
    (pc = "raised" /\ error \in OpenErrors) =>
        /\ pacer = "notstarted" /\ agg = "notstarted"
        /\ fileOpens = 0 /\ ~fileOpen /\ filePos = 0
        /\ outbound = <<>>
        /\ evIdx = 0 /\ text = ""
        /\ translateCalls = <<>> /\ pollyCalls = <<>>

C8_Witness ==
    /\ pc = "raised"
    /\ error = "AuthenticationError"
    /\ pacer = "notstarted"

\* C9 (as claimed): when the inbound sequence ends abnormally after finalized
\* results were consumed, handle_events returns the text accumulated so far
\* and the session does not fail with the stream's fault.
C9_FaultYieldsPartialTranscript ==
    (faulted /\ evIdx > 0 /\ text # "") =>
        /\ agg = "done"
        /\ aggResult = Str(text)
        /\ error # "StreamInterruptedError"

\* C10: translate is invoked at most once, only after transcription has
\* completed, and exactly when the transcript is non-empty; with an empty
\* transcript it is never invoked and the translated text is "".
C10_TranslateOnceIffTranscript ==
    /\ Len(translateCalls) <= 1
    /\ translateCalls # <<>> =>
          /\ pacer = "done" /\ agg = "done"
          /\ pc \in {"polly", "returned", "raised"}
          /\ translateCalls[1].text = transcribe_text
          /\ transcribe_text = aggResult.val
          /\ transcribe_text # ""
    /\ (pc \in {"polly", "returned"} \/ error \in {"TranslateError", "PollyError"}) =>
          (Len(translateCalls) = 1 <=> transcribe_text # "")
    /\ (pc \in {"polly", "returned"} /\ transcribe_text = "") =>
          (translateCalls = <<>> /\ translate_text = "")

C10_Witness ==
    /\ pc = "returned"
    /\ Len(translateCalls) = 1
    /\ translateCalls[1].text = "a"
    /\ translate_text = "t"

\* C11: polly is invoked at most once, only after translate has returned, and
\* exactly when the translated text is non-empty; a returned audio path
\* implies a non-empty translation, which implies a non-empty transcript, and
\* otherwise the audio output is None.
C11_PollyOnceIffTranslation ==
    /\ Len(pollyCalls) <= 1
    /\ pollyCalls # <<>> =>
          /\ pc \in {"returned", "raised"}
          /\ Len(translateCalls) = 1
          /\ error # "TranslateError"
          /\ pollyCalls[1].text = translate_text
          /\ translate_text # ""
    /\ (pc = "returned" \/ error = "PollyError") =>
          (Len(pollyCalls) = 1 <=> translate_text # "")
    /\ polly_audio # None =>
          (pc = "returned" /\ Len(pollyCalls) = 1 /\ translate_text # "")
    /\ translate_text # "" => (transcribe_text # "" /\ Len(translateCalls) = 1)
    /\ (pc = "returned" /\ translate_text = "") =>
          (pollyCalls = <<>> /\ polly_audio = None)

C11_Witness ==
    /\ pc = "returned"
    /\ Len(pollyCalls) = 1
    /\ pollyCalls[1].text = "t"
    /\ polly_audio = Str(TmpFile)

PacerErrors == {"IOError", "TransportError"}

\* C12: a failure of the transport open or of the Pacer reaches the caller of
\* transcribe_fn as an error: the call either returns a complete transcript
\* with no error or raises; after such a failure no transcript is returned
\* and neither translate nor polly is invoked.
C12_FailuresSurface ==
    /\ pc = "raised" => error # ""
    /\ pc \in {"translate", "polly", "returned"} =>
          /\ pacer = "done" /\ agg = "done" /\ gatherExc = ""
          /\ evIdx = Len(inbound)
          /\ transcribe_text = aggResult.val
    /\ pc = "returned" => error = ""
    /\ (pacer = "failed" /\ Closed) =>
          /\ pc = "raised" /\ error = gatherExc
          /\ agg # "failed" => error \in PacerErrors
    /\ (pacer = "failed" \/ error \in OpenErrors) =>
          /\ pc \in {"gather", "raised"}
          /\ response = <<>> /\ transcribe_text = ""
          /\ translateCalls = <<>> /\ pollyCalls = <<>>
          /\ translate_text = "" /\ polly_audio = None

\* The Pacer sent a chunk, then a read of the file failed, and the caller got
\* the I/O error
C12_Witness ==
    /\ pacer = "failed"
    /\ Len(outbound) >= 1
    /\ agg = "iterating"
    /\ pc = "raised"
    /\ error = "IOError"

-----------------------------------------------------------------------------
(* Scheduling.  The event loop runs every task that is ready, so a step of  *)
(* a coroutine that stays possible is eventually taken, and time passes;    *)
(* the failing steps (an I/O error, a dropped connection, a stream fault)   *)
(* are not forced.                                                          *)

PacerStep ==
    PacerOpenFile \/ PacerSendChunk \/ PacerSleep \/ PacerEof \/ PacerEndStream

AggStep == AggNextEvent \/ AggClose

CallerStep == OpenTransport \/ GatherReturn \/ GatherRaise

Fairness ==
    WF_vars(PacerStep) /\ WF_vars(AggStep) /\ WF_vars(CallerStep) /\ WF_vars(Tick)

FairSpec == Spec /\ Fairness

\* The transport failed to open, a task raised, or the stream faulted
FailureOccurred ==
    pacer = "failed" \/ agg = "failed" \/ (pc = "raised" /\ error \in OpenErrors)

BasicTranscribeReturned ==
    /\ pacer = "done"
    /\ agg = "done"
    /\ pc \in {"translate", "polly", "returned", "raised"}
    /\ transcribe_text = aggResult.val

\* C13: with a readable file and a transport that opens and closes its inbound
\* sequence after end-of-stream (no failure occurs), under fair scheduling
\* the Pacer finishes, the Aggregator finishes and basic_transcribe returns
\* the transcript.
C13_SessionCompletes ==
    (pc = "start") ~> (FailureOccurred \/ BasicTranscribeReturned)

C13_Witness ==
    /\ ~FailureOccurred
    /\ BasicTranscribeReturned
    /\ fileSize = 2 * CHUNK_SIZE
    /\ Len(outbound) = 3
    /\ Len(inbound) = 2
    /\ transcribe_text = "ab"

\* C14 (as claimed): when the audio file cannot be opened or read, the session
\* fails with the I/O error and the Aggregator still terminates, although the
\* remote endpoint closes the inbound sequence only after end-of-stream.
C14_AggregatorTerminatesAfterIOError ==
    (pacer = "failed" /\ gatherExc = "IOError") ~>
        (pc = "raised" /\ error = "IOError" /\ TaskReturned(agg))

\* Number of chunks of a file of n bytes
ChunkCount(n) == (n + CHUNK_SIZE - 1) \div CHUNK_SIZE

\* The chunks of a file of n bytes, in file order, then end-of-stream
ExpectedOutbound(n) ==
    [i \in 1..(ChunkCount(n) + 1) |->
        IF i <= ChunkCount(n)
        THEN Chunk((i - 1) * CHUNK_SIZE,
                   IF i * CHUNK_SIZE <= n THEN CHUNK_SIZE ELSE n - (i - 1) * CHUNK_SIZE)
        ELSE EndOfStream]

IsPrefix(s, t) == Len(s) <= Len(t) /\ \A i \in 1..Len(s) : s[i] = t[i]

\* C15: the outbound sub-channel carries the file's chunks in file order, each
\* once and each of at most CHUNK_SIZE bytes, then exactly one end-of-stream:
\* what was sent is always a prefix of that list, end-of-stream is sent only
\* after the last chunk, nothing is sent after it, and a successful Pacer has
\* sent the whole list.
C15_OutboundIsChunksThenEndOfStream ==
    /\ IsPrefix(outbound, ExpectedOutbound(fileSize))
    /\ \A i \in 1..Len(outbound) :
          /\ outbound[i].kind = "chunk" =>
                (outbound[i].size >= 1 /\ outbound[i].size <= CHUNK_SIZE)
          /\ outbound[i] = EndOfStream =>
                (i = Len(outbound) /\ i = ChunkCount(fileSize) + 1 /\ filePos = fileSize)
    /\ pacer = "done" => outbound = ExpectedOutbound(fileSize)

C15_Witness ==
    /\ pacer = "done"
    /\ fileSize = CHUNK_SIZE + 1
    /\ outbound = <<Chunk(0, CHUNK_SIZE), Chunk(CHUNK_SIZE, 1), EndOfStream>>

\* C16: for a given inbound sequence the returned transcript is the same
\* under every interleaving of Pacer steps with Aggregator steps: it is the
\* text of the sequence's finalized results whenever the call returns; only a
\* step of handle_events changes the running text, and once the tasks are
\* started such a step changes nothing of the Pacer or of the caller, nor
\* does a Pacer step change the Aggregator's text or position.
C16_TranscriptIndependentOfInterleaving ==
    /\ [](pc \in {"translate", "polly", "returned"} =>
            transcribe_text = ExpectedText(inbound))
    /\ [][/\ inbound' = inbound
          /\ aggVars' # aggVars =>
                \/ pc = "start" /\ agg = "notstarted" /\ agg' = "iterating"
                \/ agg = "iterating" /\ pacerVars' = pacerVars
                                     /\ callerVars' = callerVars
          /\ text' # text => (agg = "iterating" /\ evIdx' = evIdx + 1)
          /\ pacerVars' # pacerVars => (text' = text /\ evIdx' = evIdx)]_vars

\* Both events were taken before the first chunk was read, or after end of
\* stream, or in between: the transcript is "ab" in each case
C16_Witness ==
    /\ pc = "translate"
    /\ fileSize = CHUNK_SIZE
    /\ inbound = << <<Result(FALSE, <<Alt("a")>>)>>, <<Result(FALSE, <<Alt("b")>>)>> >>
    /\ transcribe_text = "ab"

\* Bytes of the chunks sent so far
RECURSIVE SentBytes(_)
SentBytes(out) ==
    IF out = <<>> THEN 0
    ELSE (IF Head(out).kind = "chunk" THEN Head(out).size ELSE 0) + SentBytes(Tail(out))

\* The audio duration of the chunks already emitted, in clock ticks
EmittedAudioTime == AudioTime(SentBytes(outbound))

\* apply_realtime_delay has returned
PacingOver == pacer \in {"end_stream", "done"}

\* The emitted audio is never ahead of the clock by more than a chunk
LeadAtMostOneChunk == EmittedAudioTime - now <= AudioTime(CHUNK_SIZE)

C18_DownstreamCallsUseTargetLanguage ==
    /\ \A i \in 1..Len(translateCalls) :
          /\ language = "Japanese" =>
                (translateCalls[i].src_lang = "ja" /\ translateCalls[i].target_lang = "en")
          /\ language = "English" =>
                (translateCalls[i].src_lang = "en" /\ translateCalls[i].target_lang = "ja")
    /\ \A i \in 1..Len(pollyCalls) :
          /\ language = "Japanese" =>
                /\ pollyCalls[i].language_code = "en-US"
                /\ pollyCalls[i].voice_id = "Ruth"
                /\ pollyCalls[i].engine = "generative"
          /\ language = "English" =>
                /\ pollyCalls[i].language_code = "ja-JP"
                /\ pollyCalls[i].voice_id = "Takumi"
                /\ pollyCalls[i].engine = "neural"
          /\ pollyCalls[i].language_code # LANGUAGE_LIST[language]

C18_Witness ==
    /\ pc = "returned"
    /\ language = "English"
    /\ Len(translateCalls) = 1 /\ translateCalls[1].target_lang = "ja"
    /\ Len(pollyCalls) = 1 /\ pollyCalls[1].voice_id = "Takumi"

EndOfStreamSignalled == \E i \in 1..Len(outbound) : outbound[i] = EndOfStream

\* C19 (as claimed): the file handle is acquired only by the Pacer, once, and
\* released on every exit of the Pacer: it is not held when end-of-stream is
\* signalled, nor in any terminal state of the session (basic_transcribe has
\* returned or raised).
C19_FileHandleReleased ==
    /\ fileOpen => pacer \in {"reading", "sleeping"}
    /\ fileOpens <= 1
    /\ TaskReturned(pacer) => ~fileOpen
    /\ EndOfStreamSignalled => ~fileOpen
    /\ Closed => ~fileOpen

=============================================================================
